---- MODULE Spec2Model ----
(***************************************************************************)
(* A model of the DeepWiki knowledge base: the schema-versioned store of   *)
(* deepwiki/database_versioning.py and the KnowledgeBase facade of         *)
(* deepwiki/knowledge_base.py.                                             *)
(*                                                                         *)
(* Python values are modelled as records of one shape, [t, v, items]:      *)
(* a string is [t |-> "str", v |-> <the string>], a dict is                *)
(* [t |-> "dict", items |-> <sequence of <<key, value>> pairs>], and an    *)
(* object pickle cannot serialise is [t |-> "lambda"].  A file is          *)
(* [exists, bytes] where bytes is the sequence of pickle opcodes on disk.  *)
(***************************************************************************)
EXTENDS Integers, Sequences, FiniteSets, TLC

VARIABLES
    fs,          \* the files of the store: path -> [exists, bytes]
    dirs,        \* the directories that exist
    sv,          \* the save_state_with_version call in flight, if any
    res,         \* what the last completed store operation did; res.file is the file
                 \* a load or a version check read
    lastSaved,   \* per path, the payload of the last save that returned, if no write followed
    overwrote,   \* per path, whether the last save to it opened over a valid record
    is_ready,          \* KnowledgeBase.is_ready
    repo_url_or_path,  \* KnowledgeBase.repo_url_or_path
    memory,      \* KnowledgeBase.rag.memory: the conversation turns, oldest first
    db,          \* identifier -> the state of its database directory
    ragCalls,    \* how many times the RAG engine has been called
    kres,        \* what the last facade call returned
    everOk,      \* whether some build or load has returned True
    bt,          \* per thread, the build() call it is in, if any
    mt,          \* per thread, the conversation call it is in, and the memory objects
    rz,          \* the identifier resolver: the directories there are, the last calls
    mn           \* main(): its arguments and the line it is at

storeVars == <<fs, dirs, sv, res, lastSaved, overwrote>>

kbVars == <<is_ready, repo_url_or_path, memory, db, ragCalls, kres, everOk>>

auxVars == <<mt, rz, mn>>

vars == <<fs, dirs, sv, res, lastSaved, overwrote,
          is_ready, repo_url_or_path, memory, db, ragCalls, kres, everOk, bt,
          mt, rz, mn>>

----------------------------------------------------------------------------
(* Python values *)

Str(s) == [t |-> "str", v |-> s, items |-> <<>>]

Dict(its) == [t |-> "dict", v |-> "", items |-> its]

Unpicklable == [t |-> "lambda", v |-> "<lambda>", items |-> <<>>]

PyNone == [t |-> "none", v |-> "", items |-> <<>>]

Mark == [t |-> "mark", v |-> "", items |-> <<>>]

\* key in d  (d a dict)
DictHas(d, k) == \E i \in 1..Len(d.items) : d.items[i][1] = k

\* d[key]
DictGet(d, k) ==
    LET i == CHOOSE j \in 1..Len(d.items) : d.items[j][1] = k
    IN  d.items[i][2]

\* d[key] = value: an existing key keeps its place, a new key goes last
DictSet(d, k, val) ==
    IF DictHas(d, k)
    THEN Dict([i \in 1..Len(d.items) |->
                 IF d.items[i][1] = k THEN <<k, val>> ELSE d.items[i]])
    ELSE Dict(Append(d.items, <<k, val>>))

----------------------------------------------------------------------------
(* pickle: dump to a sequence of opcodes, load by the unpickler's stack machine *)

Op(name, arg) == <<name, arg>>

RECURSIVE Encode(_)
RECURSIVE EncodeItems(_, _)

\* The opcodes of one dict's items from index i on: key, value, key, value, ...
EncodeItems(its, i) ==
    IF i > Len(its) THEN <<>>
    ELSE <<Op("UNICODE", its[i][1])>> \o Encode(its[i][2]) \o EncodeItems(its, i + 1)

\* The opcodes pickle.dump produces for one object; an object that cannot be
\* pickled gives the opcode RAISE at the place the pickler gives up.
Encode(obj) ==
    CASE obj.t = "str"  -> <<Op("UNICODE", obj.v)>>
      [] obj.t = "dict" -> <<Op("EMPTY_DICT", ""), Op("MARK", "")>>
                             \o EncodeItems(obj.items, 1)
                             \o <<Op("SETITEMS", "")>>
      [] OTHER          -> <<Op("RAISE", "PicklingError")>>

Dumps(obj) == <<Op("PROTO", "4")>> \o Encode(obj) \o <<Op("STOP", "")>>

\* The prefix of a dump that is written before the pickler raises
RECURSIVE WritablePrefix(_)
WritablePrefix(ops) ==
    IF ops = <<>> \/ Head(ops)[1] = "RAISE" THEN <<>>
    ELSE <<Head(ops)>> \o WritablePrefix(Tail(ops))

Picklable(obj) == \A i \in 1..Len(Dumps(obj)) : Dumps(obj)[i][1] # "RAISE"

UnpickleOk(obj) == [err |-> "", obj |-> obj]

UnpickleErr(e) == [err |-> e, obj |-> PyNone]

\* The index of the topmost MARK of a stack, 0 if there is none
TopMark(stack) ==
    LET ms == {i \in 1..Len(stack) : stack[i] = Mark}
    IN  IF ms = {} THEN 0 ELSE CHOOSE i \in ms : \A j \in ms : j <= i

RECURSIVE SetItems(_, _, _)
\* SETITEMS: the pairs above the mark, in order, set on the dict below it
SetItems(d, pairs, i) ==
    IF i >= Len(pairs) THEN d
    ELSE SetItems(DictSet(d, pairs[i].v, pairs[i + 1]), pairs, i + 2)

RECURSIVE Unpickle(_, _, _)
\* pickle.load: run the opcodes from index i with the given stack
Unpickle(bytes, i, stack) ==
    IF i > Len(bytes) THEN UnpickleErr("EOFError")
    ELSE LET op == bytes[i][1]
             arg == bytes[i][2]
         IN CASE op = "PROTO"      -> Unpickle(bytes, i + 1, stack)
              [] op = "UNICODE"    -> Unpickle(bytes, i + 1, Append(stack, Str(arg)))
              [] op = "EMPTY_DICT" -> Unpickle(bytes, i + 1, Append(stack, Dict(<<>>)))
              [] op = "MARK"       -> Unpickle(bytes, i + 1, Append(stack, Mark))
              [] op = "SETITEMS"   ->
                    LET m == TopMark(stack)
                    IN  IF m < 2 \/ stack[m - 1].t # "dict"
                           \/ (Len(stack) - m) % 2 # 0
                           \/ \E j \in (m + 1)..Len(stack) :
                                 (j - m) % 2 = 1 /\ stack[j].t # "str"
                        THEN UnpickleErr("UnpicklingError")
                        ELSE Unpickle(bytes, i + 1,
                               Append(SubSeq(stack, 1, m - 2),
                                      SetItems(stack[m - 1],
                                               SubSeq(stack, m + 1, Len(stack)), 1)))
              [] op = "STOP"       ->
                    IF stack = <<>> \/ stack[Len(stack)] = Mark
                    THEN UnpickleErr("UnpicklingError")
                    ELSE UnpickleOk(stack[Len(stack)])
              [] OTHER             -> UnpickleErr("UnpicklingError")

Loads(bytes) == Unpickle(bytes, 1, <<>>)

----------------------------------------------------------------------------
(* deepwiki/database_versioning.py *)

CURRENT_SCHEMA_VERSION == "1.0.0"

\* The opcodes one write to the file carries: the size of the writer's buffer
ChunkSize == 3

Paths == { <<"databases", "r1", "index.pkl">>, <<"databases", "r2", "index.pkl">> }

\* The objects callers hand to save
Payloads == { Str("index-A"), Dict(<< <<"test", Str("data")>> >>), Unpicklable }

NoFile == [exists |-> FALSE, bytes |-> <<>>]

FileOf(bytes) == [exists |-> TRUE, bytes |-> bytes]

Versioned_PayloadKey(obj) ==
    Dict(<< <<"schema_version", Str(CURRENT_SCHEMA_VERSION)>>, <<"payload", obj>> >>)

\* versioned_data of save_state_with_version
Versioned(obj) ==
    Dict(<< <<"schema_version", Str(CURRENT_SCHEMA_VERSION)>>, <<"data", obj>> >>)

\* Records an earlier release, or another writer, left behind
LegacyRecords ==
    { Str("legacy-index"),
      Dict(<< <<"test", Str("data")>> >>),
      Dict(<< <<"schema_version", Str("0.9.0")>>, <<"data", Str("index-old")>> >>) }

InitFiles == {NoFile} \cup {FileOf(Dumps(r)) : r \in LegacyRecords}

\* Path(filepath).parent.mkdir(parents=True, exist_ok=True): every ancestor
Ancestors(path) == { SubSeq(path, 1, n) : n \in 1..(Len(path) - 1) }

Return(val) ==
    [kind |-> "return", exc |-> "", found |-> PyNone, expected |-> PyNone, value |-> val]

Raise(e) ==
    [kind |-> "raise", exc |-> e, found |-> PyNone, expected |-> PyNone, value |-> PyNone]

SchemaMismatchError(found_version, expected_version) ==
    [kind |-> "raise", exc |-> "SchemaMismatchError", found |-> found_version,
     expected |-> expected_version, value |-> PyNone]

NoOutcome == [kind |-> "none", exc |-> "", found |-> PyNone, expected |-> PyNone, value |-> PyNone]

file_missing_AlwaysThere(file) == FALSE

\* not Path(filepath).exists()
file_missing(file) == ~file.exists

is_unversioned_DictOnly(data) == data.t # "dict"

\* not isinstance(data, dict) or "schema_version" not in data
is_unversioned(data) == data.t # "dict" \/ ~DictHas(data, "schema_version")

version_differs_Never(found_version) == FALSE

\* found_version != CURRENT_SCHEMA_VERSION
version_differs(found_version) == found_version # Str(CURRENT_SCHEMA_VERSION)

\* load_state_with_version on the file as it is now; data[key] of a key the
\* dict does not hold raises KeyError
load_state_with_version(file) ==
    IF file_missing(file) THEN Raise("FileNotFoundError")
    ELSE LET got == Loads(file.bytes)
         IN  IF got.err # "" THEN Raise(got.err)
             ELSE LET data == got.obj
                  IN  IF is_unversioned(data)
                      THEN SchemaMismatchError(Str("unknown"), Str(CURRENT_SCHEMA_VERSION))
                      ELSE IF ~DictHas(data, "schema_version") THEN Raise("KeyError")
                      ELSE LET found_version == DictGet(data, "schema_version")
                           IN  IF version_differs(found_version)
                               THEN SchemaMismatchError(found_version,
                                                        Str(CURRENT_SCHEMA_VERSION))
                               ELSE IF DictHas(data, "data")
                                    THEN Return(DictGet(data, "data"))
                                    ELSE Raise("KeyError")

PyBool(b) == [t |-> "bool", v |-> IF b THEN "True" ELSE "False", items |-> <<>>]

\* check_database_version: only the two named exceptions are caught
check_database_version(file) ==
    LET out == load_state_with_version(file)
    IN  IF out.kind = "return" THEN Return(PyBool(TRUE))
        ELSE IF out.exc \in {"SchemaMismatchError", "FileNotFoundError"}
             THEN Return(PyBool(FALSE))
             ELSE out

\* sv.old is what a load of the file would have given just before it was opened
SvIdle == [pc |-> "idle", path |-> <<>>, obj |-> PyNone, todo |-> <<>>, old |-> NoOutcome]

NoRes ==
    [op |-> "none", path |-> <<>>, out |-> NoOutcome, during |-> FALSE,
     old |-> NoOutcome, file |-> NoFile]

\* The bytes save_state_with_version hands to the file, up to where pickling fails
save_bytes(obj) == WritablePrefix(Dumps(Versioned(obj)))

\* save_state_with_version, to the open(filepath, 'wb'): the parent directories
\* are made and the file is created or truncated
SaveOpen(obj, path) ==
    /\ sv.pc = "idle"
    /\ dirs' = dirs \cup Ancestors(path)
    /\ fs' = [fs EXCEPT ![path] = FileOf(<<>>)]
    /\ sv' = [pc |-> "writing", path |-> path, obj |-> obj, todo |-> save_bytes(obj),
              old |-> load_state_with_version(fs[path])]
    /\ lastSaved' = [lastSaved EXCEPT ![path] = PyNone]
    /\ overwrote' = [overwrote EXCEPT ![path] =
                       load_state_with_version(fs[path]).kind = "return"]
    /\ UNCHANGED <<res, kbVars, bt, auxVars>>

\* pickle.dump: the buffer fills, or is flushed at the end, and one write of
\* the next opcodes reaches the file
SaveWrite ==
    /\ sv.pc = "writing"
    /\ sv.todo # <<>>
    /\ LET n == IF Len(sv.todo) < ChunkSize THEN Len(sv.todo) ELSE ChunkSize IN
       /\ fs' = [fs EXCEPT ![sv.path] = FileOf(fs[sv.path].bytes \o SubSeq(sv.todo, 1, n))]
       /\ sv' = [sv EXCEPT !.todo = SubSeq(sv.todo, n + 1, Len(sv.todo))]
    /\ UNCHANGED <<dirs, res, lastSaved, overwrote, kbVars, bt, auxVars>>

\* The with block ends: the file is closed and save_state_with_version returns
SaveClose ==
    /\ sv.pc = "writing"
    /\ sv.todo = <<>>
    /\ Picklable(sv.obj)
    /\ sv' = SvIdle
    /\ res' = [NoRes EXCEPT !.op = "save", !.path = sv.path, !.out = Return(PyNone),
                            !.old = sv.old]
    /\ lastSaved' = [lastSaved EXCEPT ![sv.path] = sv.obj]
    /\ UNCHANGED <<fs, dirs, overwrote, kbVars, bt, auxVars>>

\* pickle.dump raises (the object cannot be pickled, or a write fails): the
\* with block closes the file as it is and the exception leaves save
SaveRaise ==
    /\ sv.pc = "writing"
    /\ sv' = SvIdle
    /\ res' = [NoRes EXCEPT !.op = "save", !.path = sv.path,
                            !.out = Raise(IF Picklable(sv.obj) THEN "OSError"
                                          ELSE "PicklingError"),
                            !.old = sv.old]
    /\ UNCHANGED <<fs, dirs, lastSaved, overwrote, kbVars, bt, auxVars>>

\* A load that rewrites a record of another version in the current format
LoadState_Migrates(path) ==
    LET out == load_state_with_version(fs[path])
        data == Loads(fs[path].bytes).obj
    IN  /\ res' = [NoRes EXCEPT !.op = "load", !.path = path, !.out = out,
                                !.file = fs[path],
                                !.during = (sv.pc = "writing" /\ sv.path = path)]
        /\ fs' = IF out.exc = "SchemaMismatchError" /\ data.t = "dict"
                    /\ DictHas(data, "data")
                 THEN [fs EXCEPT ![path] = FileOf(Dumps(Versioned(DictGet(data, "data"))))]
                 ELSE fs
        /\ UNCHANGED <<dirs, sv, lastSaved, overwrote, kbVars, bt, auxVars>>

\* A call of load_state_with_version(path); it may run while a save is writing
LoadState(path) ==
    /\ res' = [NoRes EXCEPT !.op = "load", !.path = path,
                            !.out = load_state_with_version(fs[path]),
                            !.file = fs[path],
                            !.during = (sv.pc = "writing" /\ sv.path = path)]
    /\ UNCHANGED <<fs, dirs, sv, lastSaved, overwrote, kbVars, bt, auxVars>>

\* A call of check_database_version(path)
CheckVersion(path) ==
    /\ res' = [NoRes EXCEPT !.op = "check", !.path = path,
                            !.out = check_database_version(fs[path]),
                            !.file = fs[path],
                            !.during = (sv.pc = "writing" /\ sv.path = path)]
    /\ UNCHANGED <<fs, dirs, sv, lastSaved, overwrote, kbVars, bt, auxVars>>

StoreInit ==
    /\ fs \in [Paths -> InitFiles]
    /\ dirs = UNION { Ancestors(p) : p \in {q \in Paths : fs[q].exists} }
    /\ sv = SvIdle
    /\ res = NoRes
    /\ lastSaved = [p \in Paths |-> PyNone]
    /\ overwrote = [p \in Paths |-> FALSE]

StoreNext ==
    \/ \E obj \in Payloads, path \in Paths : SaveOpen(obj, path)
    \/ SaveWrite
    \/ SaveClose
    \/ SaveRaise
    \/ \E path \in Paths : LoadState(path)
    \/ \E path \in Paths : CheckVersion(path)

----------------------------------------------------------------------------
(* deepwiki/knowledge_base.py: the repository identifier                   *)
(*                                                                         *)
(* A string is a sequence of tokens: "/" and ".git" are tokens of their    *)
(* own, every other token is a run of characters that holds no "/" and no  *)
(* part of a ".git".                                                       *)

RECURSIVE StripLeft(_)
StripLeft(str) == IF str # <<>> /\ Head(str) = "/" THEN StripLeft(Tail(str)) ELSE str

RECURSIVE StripRight(_)
StripRight(str) ==
    IF str # <<>> /\ str[Len(str)] = "/" THEN StripRight(SubSeq(str, 1, Len(str) - 1))
    ELSE str

\* str.strip('/')
Strip(str) == StripRight(StripLeft(str))

RECURSIVE SplitFrom(_, _, _)
\* str.split('/'): cur is the part being read; an empty string gives one empty part
SplitFrom(str, i, cur) ==
    IF i > Len(str) THEN <<cur>>
    ELSE IF str[i] = "/" THEN <<cur>> \o SplitFrom(str, i + 1, <<>>)
    ELSE SplitFrom(str, i + 1, Append(cur, str[i]))

Split(str) == SplitFrom(str, 1, <<>>)

\* str.replace('.git', ''): every occurrence goes, wherever it stands
ReplaceDotGit(str) == SelectSeq(str, LAMBDA tok : tok # ".git")

\* urlparse(url).path: what follows scheme://netloc, or the whole string when
\* there is no scheme
UrlPath(url) ==
    IF Len(url) >= 3 /\ url[1] \in {"https:", "http:"} /\ url[2] = "/" /\ url[3] = "/"
    THEN LET rest == SubSeq(url, 4, Len(url))
             cut == {i \in 1..Len(rest) : rest[i] = "/"}
         IN  IF cut = {} THEN <<>>
             ELSE SubSeq(rest, CHOOSE i \in cut : \A k \in cut : i <= k, Len(rest))
    ELSE IF url # <<>> /\ url[1] \in {"https:", "http:"} THEN Tail(url)
    ELSE url

\* Path(path).name: the last part that is not empty
PathName(path) ==
    LET parts == SelectSeq(Split(path), LAMBDA part : part # <<>>)
    IN  IF parts = <<>> THEN <<>> ELSE parts[Len(parts)]

\* KnowledgeBase._extract_repo_identifier; isdir is the set of strings that
\* name a directory at the time of the call
extract_repo_identifier(isdir, repo) ==
    IF repo \in isdir THEN PathName(repo)
    ELSE LET path_parts == Split(Strip(UrlPath(repo)))
         IN  IF Len(path_parts) >= 2
             THEN path_parts[1] \o <<"_">> \o ReplaceDotGit(path_parts[2])
             ELSE ReplaceDotGit(path_parts[1])

----------------------------------------------------------------------------
(* deepwiki/knowledge_base.py: the KnowledgeBase facade *)

GitHub == <<"https:", "/", "/", "github.com", "/">>

\* The repository references callers pass
Repos ==
    { GitHub \o <<"owner", "/", "repo">>,
      GitHub \o <<"owner", "/", "repo", ".git">>,
      GitHub \o <<"owner", "/", "other", "/">> }

\* None of the references above is a local directory
LocalDirs == {}

Idents == { extract_repo_identifier(LocalDirs, r) : r \in Repos }

\* self._extract_repo_identifier(repo_url_or_path), for each string a caller passes
repo_identifier_of == [r \in Repos |-> extract_repo_identifier(LocalDirs, r)]

Questions == {"q1", "q2"}

Languages == {"en", "es"}

\* The most conversation turns the model keeps
MaxTurns == 2

\* The most calls of the RAG engine the model counts
MaxCalls == 2

\* None: the value of repo_url_or_path at construction, and an argument that
\* is no string
NoRepo == <<"None">>

\* What callers pass as repo_url_or_path
RepoArgs == Repos \cup {NoRepo}

\* The state of <root>/databases/<identifier>: no such path, an empty
\* directory, a directory holding a loadable index, a directory holding a
\* record of another schema version, or a path that is no directory
DbStates == {"missing", "empty", "built", "stale", "notdir"}

\* _extract_repo_identifier raises: os.path.isdir of a value that is no string
extract_raises(repo) == repo = NoRepo

\* _database_exists raises: os.listdir of a path that is no directory
database_exists_raises(dbs, repo_identifier) == dbs[repo_identifier] = "notdir"

\* os.path.exists(db_path)
path_exists(state) == state # "missing"

\* os.listdir(db_path) of a directory
listdir(state) == IF state \in {"built", "stale"} THEN <<"index">> ELSE <<>>

database_exists_IgnoresEntries(dbs, repo_identifier) == path_exists(dbs[repo_identifier])

\* KnowledgeBase._database_exists: the directory exists and lists an entry
database_exists(dbs, repo_identifier) ==
    path_exists(dbs[repo_identifier]) /\ listdir(dbs[repo_identifier]) # <<>>

\* RAG.prepare_retriever as the facade sees it: it raises or returns.  From
\* load it reads the persisted index, which fails on a record of another
\* schema version; from build it ingests, embeds and persists a new index.
\* prep is what the backends do this time: "ok" or "raise".
prepare_retriever(dbs, repo_identifier, site, prep) ==
    IF site = "load"
    THEN [raised |-> (dbs[repo_identifier] # "built" \/ prep = "raise"), db |-> dbs]
    ELSE IF prep = "raise" \/ dbs[repo_identifier] = "notdir"
         THEN [raised |-> TRUE, db |-> dbs]
    ELSE [raised |-> FALSE, db |-> [dbs EXCEPT ![repo_identifier] = "built"]]

\* What a facade call leaves: its return value and the fields it wrote
Left(ret, ready, repo, dbs, nprep) ==
    [ret |-> ret, is_ready |-> ready, repo_url_or_path |-> repo, db |-> dbs,
     prepared |-> nprep]

\* What build or load did on the way: the exception it caught, the call site
\* of prepare_retriever it reached, and the calls of load it made
Way(left, exc, site, loads) ==
    [ret |-> left.ret, is_ready |-> left.is_ready,
     repo_url_or_path |-> left.repo_url_or_path, db |-> left.db,
     prepared |-> left.prepared, exc |-> exc, site |-> site, loads |-> loads]

ready_after_Always(ready, raised) == TRUE

\* is_ready after load or build: set once prepare_retriever has returned
ready_after(ready, raised) == IF raised THEN ready ELSE TRUE

load_except_Swallows(exc) == "True"

\* load: except Exception as e: ... return False
load_except(exc) == "False"

build_except_Reraises(exc) == exc

\* build: except Exception as e: ... return False
build_except(exc) == "False"

load_missing_Builds(ready, dbs, repo, repo_identifier, prep) ==
    LET p == prepare_retriever(dbs, repo_identifier, "build", prep)
    IN  Way(Left(IF p.raised THEN "False" ELSE "True",
                 ready_after(ready, p.raised), repo, p.db, 1),
            IF p.raised THEN "PrepareError" ELSE "", "build", 0)

\* load: if not self._database_exists(repo_identifier): ... return False
load_missing(ready, dbs, repo, repo_identifier, prep) ==
    Way(Left("False", ready, repo, dbs, 0), "", "none", 0)

\* KnowledgeBase.load
kb_load(ready, dbs, repo, prep) ==
    IF extract_raises(repo)
    THEN Way(Left(load_except("TypeError"), ready, repo, dbs, 0), "TypeError", "none", 0)
    ELSE LET repo_identifier == repo_identifier_of[repo]
         IN  IF database_exists_raises(dbs, repo_identifier)
             THEN Way(Left(load_except("NotADirectoryError"), ready, repo, dbs, 0),
                      "NotADirectoryError", "none", 0)
             ELSE IF ~database_exists(dbs, repo_identifier)
             THEN load_missing(ready, dbs, repo, repo_identifier, prep)
             ELSE LET p == prepare_retriever(dbs, repo_identifier, "load", prep)
                  IN  Way(Left(IF p.raised THEN load_except("PrepareError") ELSE "True",
                               ready_after(ready, p.raised), repo, p.db, 1),
                          IF p.raised THEN "PrepareError" ELSE "", "load", 0)

delegates_IgnoresForce(force_rebuild, exists) == exists

\* build: if not force_rebuild and self._database_exists(repo_identifier)
delegates(force_rebuild, exists) == ~force_rebuild /\ exists

\* KnowledgeBase.build; the existence check is not made when force_rebuild is true
kb_build(ready, dbs, repo, force_rebuild, prep) ==
    IF extract_raises(repo)
    THEN Way(Left(build_except("TypeError"), ready, repo, dbs, 0), "TypeError", "none", 0)
    ELSE LET repo_identifier == repo_identifier_of[repo]
         IN  IF ~force_rebuild /\ database_exists_raises(dbs, repo_identifier)
             THEN Way(Left(build_except("NotADirectoryError"), ready, repo, dbs, 0),
                      "NotADirectoryError", "none", 0)
             ELSE IF delegates(force_rebuild, database_exists(dbs, repo_identifier))
             THEN [kb_load(ready, dbs, repo, prep) EXCEPT !.loads = 1]
             ELSE LET p == prepare_retriever(dbs, repo_identifier, "build", prep)
                  IN  Way(Left(IF p.raised THEN build_except("PrepareError") ELSE "True",
                               ready_after(ready, p.raised), repo, p.db, 1),
                          IF p.raised THEN "PrepareError" ELSE "", "build", 0)

Threads == {1, 2}

BtIdle == [pc |-> "idle", repo |-> NoRepo, ident |-> <<>>, raised |-> FALSE]

\* kres: the call, its arguments, what it returned (or the error it raised),
\* the documents a query returned, and what the call did on the way: the
\* exception it caught, the prepare_retriever calls and their call site, the
\* load calls, and the arguments of each RAG engine call; had is the
\* conversation memory the call found, cleared the number of turns that a
\* clear_conversation just before the call removed
NoKres ==
    [op |-> "none", arg |-> <<>>, ret |-> <<>>, docs |-> <<>>, exc |-> "",
     prepared |-> 0, site |-> "none", loads |-> 0, asked |-> <<>>,
     had |-> <<>>, cleared |-> 0]

\* What RAG.call gives this time: an answer with the retrieved documents, a
\* pair whose first part is not a RAGAnswer, a value that is no pair, or an error
RagShapes == {"rag_answer", "pair", "other", "raise"}

query_except_Reraises(exc) == <<exc>>

\* query: except Exception as e: ... return the apology, which quotes the
\* exception, and no documents
query_except(exc) == <<"apology", exc>>

rag_invocations_Retries(question, language, shape) ==
    IF shape = "raise"
    THEN << <<question, language>>, <<question, language>> >>
    ELSE << <<question, language>> >>

\* The calls query makes to the RAG engine: self.rag.call(question, language)
rag_invocations(question, language, shape) == << <<question, language>> >>

\* self.rag.call(question, language) and what query makes of its result:
\* the answer text or str() of the result, the documents, or the apology
\* built from the exception
rag_call(question, language, shape) ==
    LET asked == rag_invocations(question, language, shape)
    IN  CASE shape = "rag_answer" ->
               [ret |-> <<"answer">> \o asked[1], docs |-> <<"doc">> \o asked[1],
                asked |-> asked]
          [] shape = "pair" ->
               [ret |-> <<"str">> \o asked[1], docs |-> <<"doc">> \o asked[1],
                asked |-> asked]
          [] shape = "other" ->
               [ret |-> <<"str">> \o asked[1], docs |-> <<>>, asked |-> asked]
          [] OTHER ->
               [ret |-> query_except("RagError"), docs |-> <<>>, asked |-> asked]

kb_query_NoReadyCheck(ready, question, language, shape) ==
    rag_call(question, language, shape)

\* KnowledgeBase.query: the value returned (or the error raised), the
\* retrieved documents, and the calls made to the RAG engine
kb_query(ready, question, language, shape) ==
    IF ~ready
    THEN [ret |-> <<"RuntimeError">>, docs |-> <<>>, asked |-> <<>>]
    ELSE rag_call(question, language, shape)

\* What add_dialog_turn does this time: it appends, or it fails
MemOutcomes == {"ok", "fail"}

add_dialog_turn_Prepends(mem, question, answer, outcome) ==
    IF outcome = "fail" THEN [raised |-> TRUE, memory |-> mem]
    ELSE [raised |-> FALSE, memory |-> << <<question, answer>> >> \o mem]

\* Memory.add_dialog_turn: the turn is appended and True returned, or the call
\* raises and the memory is as it was
add_dialog_turn(mem, question, answer, outcome) ==
    IF outcome = "fail" THEN [raised |-> TRUE, memory |-> mem]
    ELSE [raised |-> FALSE, memory |-> Append(mem, <<question, answer>>)]

kb_add_turn_NoReadyCheck(ready, mem, question, answer, outcome) ==
    LET m == add_dialog_turn(mem, question, answer, outcome)
    IN  [ret |-> IF m.raised THEN <<"False">> ELSE <<"True">>, memory |-> m.memory]

\* KnowledgeBase.add_conversation_turn: False when not ready or when
\* add_dialog_turn raises, else what add_dialog_turn returns
kb_add_turn(ready, mem, question, answer, outcome) ==
    IF ~ready THEN [ret |-> <<"False">>, memory |-> mem]
    ELSE LET m == add_dialog_turn(mem, question, answer, outcome)
         IN  [ret |-> IF m.raised THEN <<"False">> ELSE <<"True">>,
              memory |-> m.memory]

kb_clear_Noop(ready, mem) == mem

kb_clear_DropsOldest(ready, mem) == IF ready /\ mem # <<>> THEN Tail(mem) ELSE mem

\* KnowledgeBase.clear_conversation: a new, empty memory when ready
kb_clear(ready, mem) == IF ready THEN <<>> ELSE mem

\* The record of a facade call, after the call recorded in kres
After(k) ==
    [k EXCEPT !.had = memory,
              !.cleared = IF kres.op = "clear" THEN Len(kres.had) - Len(memory) ELSE 0]

\* What a call of build or load leaves in kres
BuiltKres(op, repo, out) ==
    After([NoKres EXCEPT !.op = op, !.arg = repo, !.ret = <<out.ret>>,
                         !.exc = out.exc, !.prepared = out.prepared,
                         !.site = out.site, !.loads = out.loads])

\* A call of build(repo, force_rebuild=force)
Build(repo, force, prep) ==
    LET out == kb_build(is_ready, db, repo, force, prep)
    IN  /\ is_ready' = out.is_ready
        /\ repo_url_or_path' = out.repo_url_or_path
        /\ db' = out.db
        /\ kres' = BuiltKres("build", repo, out)
        /\ everOk' = (everOk \/ out.ret = "True")
        /\ UNCHANGED <<memory, ragCalls, bt, storeVars, auxVars>>

\* A call of load(repo)
Load(repo, prep) ==
    LET out == kb_load(is_ready, db, repo, prep)
    IN  /\ is_ready' = out.is_ready
        /\ repo_url_or_path' = out.repo_url_or_path
        /\ db' = out.db
        /\ kres' = BuiltKres("load", repo, out)
        /\ everOk' = (everOk \/ out.ret = "True")
        /\ UNCHANGED <<memory, ragCalls, bt, storeVars, auxVars>>

\* is_built: nothing catches what the resolver or the existence check raises
kb_is_built(dbs, repo) ==
    IF extract_raises(repo) THEN <<"TypeError">>
    ELSE LET repo_identifier == repo_identifier_of[repo]
         IN  IF database_exists_raises(dbs, repo_identifier) THEN <<"NotADirectoryError">>
             ELSE IF database_exists(dbs, repo_identifier) THEN <<"True">>
             ELSE <<"False">>

\* A call of is_built(repo)
IsBuilt(repo) ==
    /\ kres' = After([NoKres EXCEPT !.op = "is_built", !.arg = repo,
                                    !.ret = kb_is_built(db, repo)])
    /\ UNCHANGED <<is_ready, repo_url_or_path, memory, db, ragCalls, everOk, bt, storeVars, auxVars>>

\* A call of query(question, language)
Query(question, language, shape) ==
    LET out == kb_query(is_ready, question, language, shape)
    IN  /\ ragCalls + Len(out.asked) <= MaxCalls
        /\ ragCalls' = ragCalls + Len(out.asked)
        /\ kres' = After([NoKres EXCEPT !.op = "query", !.arg = <<question, language>>,
                                        !.ret = out.ret, !.docs = out.docs,
                                        !.asked = out.asked])
        /\ UNCHANGED <<is_ready, repo_url_or_path, memory, db, everOk, bt, storeVars, auxVars>>

\* The methods class KnowledgeBase defines
KbMethods ==
    {"build", "load", "is_built", "query", "add_conversation_turn",
     "clear_conversation"}

\* kb.query_stream(question), as the streaming test calls it: the attribute
\* lookup on the instance fails
QueryStream(question) ==
    /\ "query_stream" \notin KbMethods
    /\ kres' = After([NoKres EXCEPT !.op = "query_stream", !.arg = <<question>>,
                                    !.ret = <<"AttributeError">>])
    /\ UNCHANGED <<is_ready, repo_url_or_path, memory, db, ragCalls, everOk, bt,
                   storeVars, auxVars>>

\* A call of add_conversation_turn(question, answer)
AddTurn(question, answer, outcome) ==
    LET out == kb_add_turn(is_ready, memory, question, answer, outcome)
    IN  /\ Len(memory) < MaxTurns
        /\ memory' = out.memory
        /\ kres' = After([NoKres EXCEPT !.op = "add", !.arg = <<question, answer>>,
                                        !.ret = out.ret])
        /\ UNCHANGED <<is_ready, repo_url_or_path, db, ragCalls, everOk, bt, storeVars, auxVars>>

\* A call of clear_conversation()
Clear ==
    /\ memory' = kb_clear(is_ready, memory)
    /\ kres' = After([NoKres EXCEPT !.op = "clear", !.ret = <<"None">>])
    /\ UNCHANGED <<is_ready, repo_url_or_path, db, ragCalls, everOk, bt, storeVars, auxVars>>

\* A resolver call: its argument, the identifier returned and the database
\* path derived from it
NoCall == [made |-> FALSE, arg |-> <<"None">>, out |-> <<"None">>, path |-> <<"None">>]

\* The resolver before any call, on a filesystem with none of the local
\* directories
RzIdle == [dirs |-> {}, call |-> NoCall, prev |-> NoCall]

\* A thread that is in no conversation call; calls are the calls it has completed
MtThreadIdle == [pc |-> "idle", q |-> "", ref |-> 0, seen |-> <<>>, calls |-> <<>>]

\* gen counts the memory objects that clear_conversation has installed
MtIdle == [gen |-> 0, th |-> [t \in Threads |-> MtThreadIdle]]

\* main() before parse_arguments
MnIdle ==
    [pc |-> "start", repo |-> NoRepo, build |-> FALSE, force_rebuild |-> FALSE,
     should_build |-> FALSE, fallback |-> FALSE, exit |-> <<>>,
     entered |-> FALSE, user_input |-> "", answer |-> <<>>, last |-> ""]

AuxIdle == mt = MtIdle /\ rz = RzIdle /\ mn = MnIdle

\* KnowledgeBase.__init__, with the databases a run may find on disk
KbInit ==
    /\ is_ready = FALSE
    /\ repo_url_or_path = NoRepo
    /\ memory = <<>>
    /\ db \in [Idents -> DbStates]
    /\ ragCalls = 0
    /\ kres = NoKres
    /\ everOk = FALSE
    /\ bt = [t \in Threads |-> BtIdle]

\* The store as the store's own actions leave it alone
StoreIdle ==
    /\ fs = [p \in Paths |-> NoFile]
    /\ dirs = {}
    /\ sv = SvIdle
    /\ res = NoRes
    /\ lastSaved = [p \in Paths |-> PyNone]
    /\ overwrote = [p \in Paths |-> FALSE]

Init == KbInit /\ StoreIdle /\ AuxIdle

Next ==
    \/ \E repo \in RepoArgs, force \in BOOLEAN, prep \in {"ok", "raise"} :
          Build(repo, force, prep)
    \/ \E repo \in RepoArgs, prep \in {"ok", "raise"} : Load(repo, prep)
    \/ \E repo \in RepoArgs : IsBuilt(repo)
    \/ \E question \in Questions, language \in Languages, shape \in RagShapes :
          Query(question, language, shape)
    \/ \E question \in Questions : QueryStream(question)
    \/ \E question \in Questions, outcome \in MemOutcomes :
          AddTurn(question, "a1", outcome)
    \/ Clear

Spec == Init /\ [][Next]_vars

----------------------------------------------------------------------------
(* build() called from several threads of one process on one KnowledgeBase: *)
(* the steps of one call, which the code takes without holding any lock    *)

\* build, from its first line to the existence check: it goes on to call
\* load (a database exists and force_rebuild is false) or prepare_retriever
BuildEnter(t, repo, force) ==
    /\ bt[t].pc = "idle"
    /\ repo_url_or_path' = repo
    /\ IF extract_raises(repo)
       THEN /\ bt' = [bt EXCEPT ![t] = BtIdle]
            /\ kres' = [NoKres EXCEPT !.op = "build", !.arg = repo,
                                      !.ret = <<build_except("TypeError")>>,
                                      !.exc = "TypeError"]
       ELSE LET repo_identifier == repo_identifier_of[repo]
            IN  IF ~force /\ database_exists_raises(db, repo_identifier)
                THEN /\ bt' = [bt EXCEPT ![t] = BtIdle]
                     /\ kres' = [NoKres EXCEPT !.op = "build", !.arg = repo,
                                     !.ret = <<build_except("NotADirectoryError")>>,
                                     !.exc = "NotADirectoryError"]
                ELSE /\ bt' = [bt EXCEPT ![t] =
                                 [pc |-> IF delegates(force, database_exists(db, repo_identifier))
                                         THEN "load-enter" ELSE "build-prepare",
                                  repo |-> repo, ident |-> repo_identifier,
                                  raised |-> FALSE]]
                     /\ UNCHANGED kres
    /\ UNCHANGED <<is_ready, memory, db, ragCalls, everOk, storeVars, auxVars>>

\* The load that build delegates to, up to its own existence check
LoadEnter(t) ==
    /\ bt[t].pc = "load-enter"
    /\ repo_url_or_path' = bt[t].repo
    /\ IF database_exists_raises(db, bt[t].ident)
       THEN /\ bt' = [bt EXCEPT ![t] = BtIdle]
            /\ kres' = [NoKres EXCEPT !.op = "build", !.arg = bt[t].repo,
                                      !.ret = <<load_except("NotADirectoryError")>>,
                                      !.exc = "NotADirectoryError", !.loads = 1]
       ELSE IF database_exists(db, bt[t].ident)
       THEN /\ bt' = [bt EXCEPT ![t].pc = "load-prepare"]
            /\ UNCHANGED kres
       ELSE /\ bt' = [bt EXCEPT ![t] = BtIdle]
            /\ kres' = [NoKres EXCEPT !.op = "build", !.arg = bt[t].repo,
                                      !.ret = <<"False">>, !.loads = 1]
    /\ UNCHANGED <<is_ready, memory, db, ragCalls, everOk, storeVars, auxVars>>

\* The call of rag.prepare_retriever, from build or from the delegated load
Prepare(t, prep) ==
    /\ bt[t].pc \in {"build-prepare", "load-prepare"}
    /\ LET p == prepare_retriever(db, bt[t].ident,
                                  IF bt[t].pc = "load-prepare" THEN "load" ELSE "build",
                                  prep)
       IN  /\ db' = p.db
           /\ bt' = [bt EXCEPT ![t].pc = "finish", ![t].raised = p.raised]
    /\ UNCHANGED <<is_ready, repo_url_or_path, memory, ragCalls, kres, everOk, storeVars, auxVars>>

\* After prepare_retriever: is_ready is set and True returned, or the
\* exception is caught and False returned
Finish(t) ==
    /\ bt[t].pc = "finish"
    /\ is_ready' = ready_after(is_ready, bt[t].raised)
    /\ kres' = [NoKres EXCEPT !.op = "build", !.arg = bt[t].repo,
                              !.ret = IF bt[t].raised THEN <<"False">> ELSE <<"True">>,
                              !.exc = IF bt[t].raised THEN "PrepareError" ELSE "",
                              !.prepared = 1]
    /\ everOk' = (everOk \/ ~bt[t].raised)
    /\ bt' = [bt EXCEPT ![t] = BtIdle]
    /\ UNCHANGED <<repo_url_or_path, memory, db, ragCalls, storeVars, auxVars>>

BuildNext ==
    \/ \E t \in Threads, repo \in RepoArgs, force \in BOOLEAN : BuildEnter(t, repo, force)
    \/ \E t \in Threads : LoadEnter(t)
    \/ \E t \in Threads, prep \in {"ok", "raise"} : Prepare(t, prep)
    \/ \E t \in Threads : Finish(t)

SpecBuild == Init /\ [][BuildNext]_vars

\* The facade as the store's actions leave it alone
KbIdle ==
    /\ is_ready = FALSE
    /\ repo_url_or_path = NoRepo
    /\ memory = <<>>
    /\ db = [i \in Idents |-> "missing"]
    /\ ragCalls = 0
    /\ kres = NoKres
    /\ everOk = FALSE
    /\ bt = [t \in Threads |-> BtIdle]

InitStore == StoreInit /\ KbIdle /\ AuxIdle

SpecStore == InitStore /\ [][StoreNext]_vars

----------------------------------------------------------------------------
(* deepwiki/knowledge_base.py: the identifier resolver and the database path *)

Owners == {<<"owner">>}

\* Repository names; the second has ".git" inside the name, as in my.github
RepoNames == {<<"repo">>, <<"my", ".git", "hub">>}

\* https://github.com/{owner}/{repo}, with and without .git and a trailing slash
UrlForms(owner, repo) ==
    LET base == GitHub \o owner \o <<"/">> \o repo
    IN  {base, base \o <<".git">>, base \o <<"/">>, base \o <<".git", "/">>}

GitHubUrls == UNION {UrlForms(o, r) : o \in Owners, r \in RepoNames}

\* /var/repos/project.git and /home/user/projects/my-repo
LocalPaths ==
    { <<"/", "var", "/", "repos", "/", "project", ".git">>,
      <<"/", "home", "/", "user", "/", "projects", "/", "my-repo">> }

EmptyString == <<>>

ResolverInputs == GitHubUrls \cup LocalPaths \cup {EmptyString}

\* get_adalflow_default_root_path()
Root == <<"/", "home", "/", ".adalflow">>

os_path_join_DropsLast(a, b) == a

\* os.path.join of two parts: an absolute second part replaces the first
os_path_join(a, b) ==
    IF b # <<>> /\ b[1] = "/" THEN b
    ELSE IF a = <<>> \/ a[Len(a)] = "/" THEN a \o b
    ELSE a \o <<"/">> \o b

\* KnowledgeBase._get_database_path
get_database_path(repo_identifier) ==
    os_path_join(os_path_join(Root, <<"databases">>), repo_identifier)

\* self._extract_repo_identifier(arg) and self._get_database_path of its
\* result, on the filesystem as it is now
Resolve(arg) ==
    LET out == extract_repo_identifier(rz.dirs, arg)
    IN  /\ rz' = [rz EXCEPT !.prev = rz.call,
                            !.call = [made |-> TRUE, arg |-> arg, out |-> out,
                                      path |-> get_database_path(out)]]
        /\ UNCHANGED <<storeVars, kbVars, bt, mt, mn>>

\* A directory appears at a local path (a clone, a mkdir)
Mkdir(path) ==
    /\ path \notin rz.dirs
    /\ rz' = [rz EXCEPT !.dirs = rz.dirs \cup {path}]
    /\ UNCHANGED <<storeVars, kbVars, bt, mt, mn>>

\* The directory at a local path goes away
Rmdir(path) ==
    /\ path \in rz.dirs
    /\ rz' = [rz EXCEPT !.dirs = rz.dirs \ {path}]
    /\ UNCHANGED <<storeVars, kbVars, bt, mt, mn>>

\* The resolver before any call; any of the local paths may name a directory
InitResolve ==
    /\ StoreIdle
    /\ KbIdle
    /\ mt = MtIdle
    /\ mn = MnIdle
    /\ rz \in {[RzIdle EXCEPT !.dirs = d] : d \in SUBSET LocalPaths}

ResolveNext ==
    \/ \E arg \in ResolverInputs : Resolve(arg)
    \/ \E path \in LocalPaths : Mkdir(path)
    \/ \E path \in LocalPaths : Rmdir(path)

SpecResolve == InitResolve /\ [][ResolveNext]_vars

----------------------------------------------------------------------------
(* main.py: main(), from the arguments to the question loop *)

\* What a build or load called from main leaves in the instance
Called(op, repo, out) ==
    /\ is_ready' = out.is_ready
    /\ repo_url_or_path' = out.repo_url_or_path
    /\ db' = out.db
    /\ kres' = BuiltKres(op, repo, out)
    /\ everOk' = (everOk \/ out.ret = "True")

\* parse_arguments, KnowledgeBase(...) and should_build = args.build or
\* args.force_rebuild
MainStart(repo, build, force_rebuild) ==
    /\ mn.pc = "start"
    /\ mn' = [mn EXCEPT !.pc = IF build \/ force_rebuild THEN "build" ELSE "is_built",
                        !.repo = repo, !.build = build,
                        !.force_rebuild = force_rebuild,
                        !.should_build = (build \/ force_rebuild)]
    /\ UNCHANGED <<kbVars, bt, storeVars, mt, rz>>

\* if kb.is_built(args.repo_url): what it raises is caught at the end of main
MainIsBuilt ==
    /\ mn.pc = "is_built"
    /\ LET ret == kb_is_built(db, mn.repo)
       IN  /\ kres' = After([NoKres EXCEPT !.op = "is_built", !.arg = mn.repo,
                                           !.ret = ret])
           /\ mn' = IF ret = <<"True">> THEN [mn EXCEPT !.pc = "load"]
                    ELSE IF ret = <<"False">>
                    THEN [mn EXCEPT !.pc = "build", !.should_build = TRUE]
                    ELSE [mn EXCEPT !.pc = "exit", !.exit = <<1>>]
    /\ UNCHANGED <<is_ready, repo_url_or_path, memory, db, ragCalls, everOk, bt,
                   storeVars, mt, rz>>

\* success = kb.load(...); on failure should_build = True ("Trying to build...")
MainLoad(prep) ==
    /\ mn.pc = "load"
    /\ LET out == kb_load(is_ready, db, mn.repo, prep)
       IN  /\ Called("load", mn.repo, out)
           /\ mn' = IF out.ret = "True" THEN [mn EXCEPT !.pc = "qa"]
                    ELSE [mn EXCEPT !.pc = "build", !.should_build = TRUE,
                                    !.fallback = TRUE]
    /\ UNCHANGED <<memory, ragCalls, bt, storeVars, mt, rz>>

after_build_AlwaysLoops(ret) == "qa"

\* if not success: return 1, else main goes on to interactive_qa_loop
after_build(ret) == IF ret = "True" THEN "qa" ELSE "exit"

\* success = kb.build(..., force_rebuild=args.force_rebuild); on failure main
\* returns 1
MainBuild(prep) ==
    /\ mn.pc = "build"
    /\ mn.should_build
    /\ LET out == kb_build(is_ready, db, mn.repo, mn.force_rebuild, prep)
       IN  /\ Called("build", mn.repo, out)
           /\ mn' = IF after_build(out.ret) = "qa" THEN [mn EXCEPT !.pc = "qa"]
                    ELSE [mn EXCEPT !.pc = "exit", !.exit = <<1>>]
    /\ UNCHANGED <<memory, ragCalls, bt, storeVars, mt, rz>>

\* What the user types at the prompt
Typed == {"", " ", "exit", "QUIT", "q", "help", "H", "?", "clear", "CLS"}
         \cup Questions \cup {" q1 "}

\* str.strip() on the lines the user types
str_strip(typed) ==
    CASE typed = " " -> ""
      [] typed = " q1 " -> "q1"
      [] OTHER -> typed

\* str.lower() on the stripped lines
str_lower(text) ==
    CASE text = "QUIT" -> "quit"
      [] text = "H" -> "h"
      [] text = "CLS" -> "cls"
      [] OTHER -> text

\* The branch of the loop body a stripped input takes
command_of(user_input) ==
    IF user_input = "" THEN "empty"
    ELSE IF str_lower(user_input) \in {"exit", "quit", "q"} THEN "exit"
    ELSE IF str_lower(user_input) \in {"help", "h", "?"} THEN "help"
    ELSE IF str_lower(user_input) \in {"clear", "cls"} THEN "clear"
    ELSE "question"

loop_except_Breaks(exc) == "exit"

\* except KeyboardInterrupt: break; except Exception: print the error and go
\* round the loop again
loop_except(exc) == IF exc = "KeyboardInterrupt" THEN "exit" ELSE "input"

\* What can be raised inside the try block of the loop
LoopErrors == {"EOFError", "RuntimeError", "OSError", "KeyboardInterrupt"}

\* The loop after an exception: the handlers of the try block
Handled(exc) ==
    IF loop_except(exc) = "exit"
    THEN [mn EXCEPT !.pc = "exit", !.exit = <<0>>, !.last = exc,
                    !.user_input = "", !.answer = <<>>]
    ELSE [mn EXCEPT !.pc = "input", !.last = exc, !.user_input = "",
                    !.answer = <<>>]

\* interactive_qa_loop(kb, args.repo_url): the welcome and the first prompt
MainQa ==
    /\ mn.pc = "qa"
    /\ mn' = [mn EXCEPT !.pc = "input", !.entered = TRUE]
    /\ UNCHANGED <<kbVars, bt, storeVars, mt, rz>>

\* user_input = input(...).strip() and the command branches of the loop body
QaRead(typed) ==
    /\ mn.pc = "input"
    /\ LET user_input == str_strip(typed)
           command == command_of(user_input)
       IN  CASE command = "empty" ->
                  /\ mn' = [mn EXCEPT !.last = "empty"]
                  /\ UNCHANGED <<memory, kres>>
             [] command = "exit" ->
                  /\ mn' = [mn EXCEPT !.pc = "exit", !.exit = <<0>>, !.last = "exit"]
                  /\ UNCHANGED <<memory, kres>>
             [] command = "help" ->
                  /\ mn' = [mn EXCEPT !.last = "help"]
                  /\ UNCHANGED <<memory, kres>>
             [] command = "clear" ->
                  /\ memory' = kb_clear(is_ready, memory)
                  /\ kres' = After([NoKres EXCEPT !.op = "clear", !.ret = <<"None">>])
                  /\ mn' = [mn EXCEPT !.last = "clear"]
             [] OTHER ->
                  /\ Len(memory) < MaxTurns
                  /\ ragCalls < MaxCalls
                  /\ mn' = [mn EXCEPT !.pc = "query", !.user_input = user_input,
                                      !.last = "question"]
                  /\ UNCHANGED <<memory, kres>>
    /\ UNCHANGED <<is_ready, repo_url_or_path, db, ragCalls, everOk, bt, storeVars,
                   mt, rz>>

\* answer, retrieved_docs = kb.query(user_input): the language is the default
QaQuery(shape) ==
    /\ mn.pc = "query"
    /\ LET out == kb_query(is_ready, mn.user_input, "en", shape)
       IN  /\ ragCalls' = ragCalls + Len(out.asked)
           /\ kres' = After([NoKres EXCEPT !.op = "query",
                                           !.arg = <<mn.user_input, "en">>,
                                           !.ret = out.ret, !.docs = out.docs,
                                           !.asked = out.asked])
           /\ mn' = IF out.ret = <<"RuntimeError">> THEN Handled("RuntimeError")
                    ELSE [mn EXCEPT !.pc = "display", !.answer = out.ret]
    /\ UNCHANGED <<is_ready, repo_url_or_path, memory, db, everOk, bt, storeVars,
                   mt, rz>>

\* The answer and the count of retrieved documents are printed
QaDisplay ==
    /\ mn.pc = "display"
    /\ mn' = [mn EXCEPT !.pc = "add"]
    /\ UNCHANGED <<kbVars, bt, storeVars, mt, rz>>

QaAdd_NotCommitted(outcome) ==
    /\ mn.pc = "add"
    /\ kres' = After([NoKres EXCEPT !.op = "add",
                                    !.arg = <<mn.user_input>> \o mn.answer,
                                    !.ret = <<"True">>])
    /\ mn' = [mn EXCEPT !.pc = "input", !.last = "turn", !.user_input = "",
                        !.answer = <<>>]
    /\ UNCHANGED <<is_ready, repo_url_or_path, memory, db, ragCalls, everOk, bt,
                   storeVars, mt, rz>>

\* kb.add_conversation_turn(user_input, answer): what it returns is dropped
QaAdd(outcome) ==
    /\ mn.pc = "add"
    /\ LET out == kb_add_turn(is_ready, memory, mn.user_input, mn.answer, outcome)
       IN  /\ memory' = out.memory
           /\ kres' = After([NoKres EXCEPT !.op = "add",
                                           !.arg = <<mn.user_input>> \o mn.answer,
                                           !.ret = out.ret])
    /\ mn' = [mn EXCEPT !.pc = "input", !.last = "turn", !.user_input = "",
                        !.answer = <<>>]
    /\ UNCHANGED <<is_ready, repo_url_or_path, db, ragCalls, everOk, bt, storeVars,
                   mt, rz>>

\* An exception inside the try block: input() at the end of the input or on
\* Ctrl-C, a print that fails before or after the query
QaRaise(exc) ==
    /\ mn.pc \in {"input", "query", "display"}
    /\ exc \in IF mn.pc = "input" THEN {"EOFError", "KeyboardInterrupt"}
               ELSE {"OSError", "KeyboardInterrupt"}
    /\ mn' = Handled(exc)
    /\ UNCHANGED <<kbVars, bt, storeVars, mt, rz>>

MainNext ==
    \/ \E repo \in Repos, build \in BOOLEAN, force_rebuild \in BOOLEAN :
          MainStart(repo, build, force_rebuild)
    \/ MainIsBuilt
    \/ \E prep \in {"ok", "raise"} : MainLoad(prep)
    \/ \E prep \in {"ok", "raise"} : MainBuild(prep)
    \/ MainQa
    \/ \E typed \in Typed : QaRead(typed)
    \/ \E shape \in RagShapes : QaQuery(shape)
    \/ QaDisplay
    \/ \E outcome \in MemOutcomes : QaAdd(outcome)
    \/ \E exc \in LoopErrors : QaRaise(exc)

SpecMain == Init /\ [][MainNext]_vars

----------------------------------------------------------------------------
(* deepwiki/knowledge_base.py: add_conversation_turn and clear_conversation
   called from several threads on one instance *)

\* The most conversation calls one thread makes
MaxThreadCalls == 2

target_content_Stale(now, seen) == seen

\* The turns add_dialog_turn appends to: those the memory object holds when
\* the append happens (seen: those it held when the caller read the reference)
target_content(now, seen) == now

\* A completed conversation call; orphan: the turn went to a memory object
\* that clear_conversation had already replaced
Completed(op, q, ret, orphan) == [op |-> op, q |-> q, ret |-> ret, orphan |-> orphan]

Returned(t, call) ==
    [mt EXCEPT !.th[t].pc = "idle", !.th[t].calls = Append(mt.th[t].calls, call)]

\* add_conversation_turn, to "if not self.is_ready: return False"
MtAddEnter(t, q) ==
    /\ mt.th[t].pc = "idle"
    /\ Len(mt.th[t].calls) < MaxThreadCalls
    /\ mt' = IF ~is_ready THEN Returned(t, Completed("add", q, "False", FALSE))
             ELSE [mt EXCEPT !.th[t].pc = "add-read", !.th[t].q = q]
    /\ UNCHANGED <<kbVars, bt, storeVars, rz, mn>>

\* add_conversation_turn: self.rag.memory is evaluated
MtAddRead(t) ==
    /\ mt.th[t].pc = "add-read"
    /\ mt' = [mt EXCEPT !.th[t].pc = "add-call", !.th[t].ref = mt.gen,
                        !.th[t].seen = memory]
    /\ UNCHANGED <<kbVars, bt, storeVars, rz, mn>>

\* add_conversation_turn: add_dialog_turn is called on the object that was
\* read, and its result returned (False when it raises)
MtAddCall(t, outcome) ==
    /\ mt.th[t].pc = "add-call"
    /\ LET m == add_dialog_turn(target_content(memory, mt.th[t].seen),
                                mt.th[t].q, "a1", outcome)
           orphan == mt.th[t].ref # mt.gen
       IN  /\ memory' = IF orphan THEN memory ELSE m.memory
           /\ mt' = Returned(t, Completed("add", mt.th[t].q,
                                          IF m.raised THEN "False" ELSE "True",
                                          orphan /\ ~m.raised))
    /\ UNCHANGED <<is_ready, repo_url_or_path, db, ragCalls, kres, everOk, bt,
                   storeVars, rz, mn>>

\* clear_conversation, to "if self.is_ready" and the construction of the new
\* memory object
MtClearEnter(t) ==
    /\ mt.th[t].pc = "idle"
    /\ Len(mt.th[t].calls) < MaxThreadCalls
    /\ mt' = IF ~is_ready THEN Returned(t, Completed("clear", "", "noop", FALSE))
             ELSE [mt EXCEPT !.th[t].pc = "clear-assign"]
    /\ UNCHANGED <<kbVars, bt, storeVars, rz, mn>>

\* clear_conversation: self.rag.memory = <the new object>
MtClearAssign(t) ==
    /\ mt.th[t].pc = "clear-assign"
    /\ memory' = kb_clear(TRUE, memory)
    /\ mt' = [Returned(t, Completed("clear", "", "cleared", FALSE))
                EXCEPT !.gen = mt.gen + 1]
    /\ UNCHANGED <<is_ready, repo_url_or_path, db, ragCalls, kres, everOk, bt,
                   storeVars, rz, mn>>

\* The repository the shared instance is built for
SharedRepo == GitHub \o <<"owner", "/", "repo">>

\* The build that makes the shared instance ready
MtBuild ==
    /\ ~is_ready
    /\ Build(SharedRepo, TRUE, "ok")

InitMemory == StoreIdle /\ KbIdle /\ AuxIdle

MemoryNext ==
    \/ MtBuild
    \/ \E t \in Threads, q \in Questions : MtAddEnter(t, q)
    \/ \E t \in Threads : MtAddRead(t)
    \/ \E t \in Threads, outcome \in MemOutcomes : MtAddCall(t, outcome)
    \/ \E t \in Threads : MtClearEnter(t)
    \/ \E t \in Threads : MtClearAssign(t)

SpecMemory == InitMemory /\ [][MemoryNext]_vars

----------------------------------------------------------------------------
(* The claims about the versioned store, checked under SpecStore *)

\* The file holds a complete record
HoldsRecord(file) == file.exists /\ Loads(file.bytes).err = ""

\* The file holds a record that carries a schema_version tag
HasTag(file) ==
    /\ HoldsRecord(file)
    /\ Loads(file.bytes).obj.t = "dict"
    /\ DictHas(Loads(file.bytes).obj, "schema_version")

Tag(file) == DictGet(Loads(file.bytes).obj, "schema_version")

\* A save to this path is between its open and its close
SaveInFlight(path) == sv.pc = "writing" /\ sv.path = path

LegacyDict == Dict(<< <<"test", Str("data")>> >>)

OldVersionRecord ==
    Dict(<< <<"schema_version", Str("0.9.0")>>, <<"data", Str("index-old")>> >>)

\* C3: a load that runs while a save overwrites a valid record observes the
\* complete old record or the complete new one, never an empty or partial file.
C3_LoadSeesOldOrNew ==
    (res.op = "load" /\ res.during /\ SaveInFlight(res.path) /\ sv.old.kind = "return")
        => res.out \in {sv.old, Return(sv.obj)}

\* C5: when a save over a valid record fails part-way, the record persisted
\* before it is still there and loads to its original payload.
C5_FailedSaveKeepsOldRecord ==
    (res.op = "save" /\ res.out.kind = "raise" /\ res.old.kind = "return"
        /\ ~SaveInFlight(res.path))
        => load_state_with_version(fs[res.path]) = res.old

\* C6: save then load, with no other write to the path in between, returns the
\* saved object; after several saves to a path, load returns the most recent payload.
C6_RoundTrip ==
    /\ \A p \in Paths :
          lastSaved[p] # PyNone => load_state_with_version(fs[p]) = Return(lastSaved[p])
    /\ (res.op = "load" /\ lastSaved[res.path] # PyNone)
          => res.out = Return(lastSaved[res.path])

\* A load has returned the payload a save put over an earlier save's record,
\* while the other path keeps the record saved to it
C6_Witness ==
    /\ res.op = "load"
    /\ lastSaved[res.path] = LegacyDict
    /\ res.out = Return(LegacyDict)
    /\ overwrote[res.path]
    /\ \E q \in Paths : q # res.path /\ lastSaved[q] = Str("index-A")

\* C7: loading a record without a schema_version tag (not a dict, or a dict
\* without the key) raises SchemaMismatchError("unknown", CURRENT_SCHEMA_VERSION)
\* and returns no payload.
C7_UnversionedRaisesUnknown ==
    /\ \A p \in Paths :
         (HoldsRecord(fs[p]) /\ ~HasTag(fs[p])) =>
            load_state_with_version(fs[p])
               = SchemaMismatchError(Str("unknown"), Str(CURRENT_SCHEMA_VERSION))
    /\ (res.op = "load" /\ HoldsRecord(res.file) /\ ~HasTag(res.file)) =>
          res.out = SchemaMismatchError(Str("unknown"), Str(CURRENT_SCHEMA_VERSION))

\* A load of a dict that has no schema_version key has raised the mismatch
C7_Witness ==
    /\ res.op = "load"
    /\ res.file = FileOf(Dumps(LegacyDict))
    /\ res.out.exc = "SchemaMismatchError"
    /\ res.out.found = Str("unknown")

\* What C8 asks of a load's outcome for the file it read
TagDecides(file, out) ==
    /\ out.kind = "return" => (HasTag(file) /\ Tag(file) = Str(CURRENT_SCHEMA_VERSION))
    /\ (HasTag(file) /\ Tag(file) # Str(CURRENT_SCHEMA_VERSION))
          => out = SchemaMismatchError(Tag(file), Str(CURRENT_SCHEMA_VERSION))

\* C8: load returns a payload only when the record's tag equals
\* CURRENT_SCHEMA_VERSION; for a record whose tag differs it raises
\* SchemaMismatchError(found = the stored tag, expected = CURRENT_SCHEMA_VERSION).
C8_TagDecides ==
    /\ \A p \in Paths : TagDecides(fs[p], load_state_with_version(fs[p]))
    /\ res.op = "load" => TagDecides(res.file, res.out)

\* A load of a record tagged 0.9.0 has raised the mismatch naming that tag
C8_Witness ==
    /\ res.op = "load"
    /\ res.file = FileOf(Dumps(OldVersionRecord))
    /\ res.out = SchemaMismatchError(Str("0.9.0"), Str(CURRENT_SCHEMA_VERSION))

\* C9: load on a path where no record exists fails with the not-found error and
\* creates nothing: no file and no directory.
C9_MissingFileNotFound ==
    [][\A p \in Paths :
          (LoadState(p) /\ ~fs[p].exists) =>
             /\ res'.out = Raise("FileNotFoundError")
             /\ fs' = fs
             /\ dirs' = dirs]_vars

\* A load of a path without a file has raised FileNotFoundError, and the
\* path's directory is still not there
C9_Witness ==
    /\ res.op = "load"
    /\ ~res.file.exists
    /\ ~fs[res.path].exists
    /\ Ancestors(res.path) \cap dirs = {<<"databases">>}
    /\ res.out = Raise("FileNotFoundError")

\* C10: load and check_database_version leave the store unchanged in every
\* outcome, and a record that fails with a schema mismatch keeps failing with
\* the same mismatch until a save overwrites it.
C10_NeverMigrates ==
    [][/\ \A p \in Paths : (LoadState(p) \/ CheckVersion(p)) => (fs' = fs /\ dirs' = dirs)
       /\ \A p \in Paths :
             (/\ load_state_with_version(fs[p]).exc = "SchemaMismatchError"
              /\ ~(sv.pc = "idle" /\ sv'.pc = "writing" /\ sv'.path = p))
                => load_state_with_version(fs'[p]) = load_state_with_version(fs[p])
      ]_vars

\* A version check has failed on a record of another version after a save went
\* to the other path, and the record is as it was
C10_Witness ==
    /\ res.op = "check"
    /\ res.out = Return(PyBool(FALSE))
    /\ res.file = FileOf(Dumps(OldVersionRecord))
    /\ fs[res.path] = res.file
    /\ \E q \in Paths : q # res.path /\ lastSaved[q] # PyNone

----------------------------------------------------------------------------
(* The claims about the KnowledgeBase facade, checked under Spec and SpecBuild *)

\* C1: query on an instance that is not ready raises the not-ready error,
\* makes no call to the RAG engine, and leaves is_ready, repo_url_or_path and
\* the conversation memory unchanged.
C1_QueryNotReadyRaises ==
    [][\A q \in Questions, l \in Languages, shape \in RagShapes :
          (Query(q, l, shape) /\ ~is_ready) =>
             /\ kres'.ret = <<"RuntimeError">>
             /\ kres'.docs = <<>>
             /\ ragCalls' = ragCalls
             /\ is_ready' = is_ready
             /\ repo_url_or_path' = repo_url_or_path
             /\ memory' = memory]_vars

\* A query has raised the not-ready error after a build failed: nothing was
\* asked of the RAG engine and the instance is still not ready
C1_Witness ==
    /\ kres.op = "query"
    /\ kres.ret = <<"RuntimeError">>
    /\ ~is_ready
    /\ repo_url_or_path \in Repos
    /\ ragCalls = 0
    /\ memory = <<>>

\* C2: is_ready is false at construction and true only if an earlier build or
\* load returned True; every build or load that returns True leaves it true.
C2_ReadyIffBuiltOrLoaded ==
    /\ is_ready => everOk
    /\ (kres.op \in {"build", "load"} /\ kres.ret = <<"True">>) => is_ready
    /\ kres.op = "none" => ~is_ready

\* A load has returned True and the instance is ready
C2_Witness ==
    /\ kres.op = "load"
    /\ kres.ret = <<"True">>
    /\ is_ready
    /\ everOk

\* The thread is inside build(): past the existence check, not yet returned
InFlight(t) == bt[t].pc # "idle"

\* C4: two concurrent build() calls for the same identifier are serialized: no
\* two build pipelines for one identifier are in flight at the same time.
C4_BuildsSerialized ==
    \A t1 \in Threads, t2 \in Threads :
       (t1 # t2 /\ InFlight(t1) /\ InFlight(t2)) => bt[t1].ident # bt[t2].ident

\* C11: build never raises: whatever fails during identifier extraction, the
\* existence check, the delegated load or retriever preparation, build
\* returns False, and the failing call does not set is_ready.
C11_BuildNeverRaises ==
    [][\A repo \in RepoArgs, force \in BOOLEAN, prep \in {"ok", "raise"} :
          (kres'.op = "build" /\ kres'.arg = repo /\ Build(repo, force, prep)) =>
             /\ kres'.ret \in {<<"True">>, <<"False">>}
             /\ kres'.exc # "" => (kres'.ret = <<"False">> /\ is_ready' = is_ready)
             /\ (\/ extract_raises(repo)
                 \/ (~force /\ database_exists_raises(db, repo_identifier_of[repo]))
                 \/ prep = "raise") => kres'.ret = <<"False">>]_vars

\* A build delegated to load, retriever preparation failed there, and build
\* returned False on an instance that is still not ready
C11_Witness ==
    /\ kres.op = "build"
    /\ kres.exc = "PrepareError"
    /\ kres.loads = 1
    /\ kres.ret = <<"False">>
    /\ ~is_ready

\* C12: a build whose identifier extraction and existence check return
\* delegates to load exactly when force_rebuild is false and a non-empty
\* database exists; it then returns what load returns and does not run the
\* build path; otherwise it runs the build path and never calls load.
C12_DelegatesExactlyWhen ==
    [][\A repo \in Repos, force \in BOOLEAN, prep \in {"ok", "raise"} :
          (kres'.op = "build" /\ kres'.arg = repo /\ Build(repo, force, prep)
             /\ ~(~force /\ database_exists_raises(db, repo_identifier_of[repo]))) =>
             IF ~force /\ database_exists(db, repo_identifier_of[repo])
             THEN /\ kres'.loads = 1
                  /\ kres'.site # "build"
                  /\ kres'.ret = <<kb_load(is_ready, db, repo, prep).ret>>
                  /\ is_ready' = kb_load(is_ready, db, repo, prep).is_ready
                  /\ db' = kb_load(is_ready, db, repo, prep).db
             ELSE /\ kres'.loads = 0
                  /\ kres'.site = "build"
                  /\ kres'.prepared = 1]_vars

\* A build found a database, called load once and returned load's True; the
\* build path did not run
C12_Witness ==
    /\ kres.op = "build"
    /\ kres.loads = 1
    /\ kres.site = "load"
    /\ kres.prepared = 1
    /\ kres.ret = <<"True">>
    /\ is_ready

\* C13: load of a repository with no non-empty persisted database returns
\* False, does not call retriever preparation and leaves is_ready as it was.
C13_LoadWithoutDatabase ==
    [][\A repo \in Repos, prep \in {"ok", "raise"} :
          (kres'.op = "load" /\ kres'.arg = repo /\ Load(repo, prep) /\ db[repo_identifier_of[repo]] \in {"missing", "empty"}) =>
             /\ kres'.ret = <<"False">>
             /\ kres'.prepared = 0
             /\ is_ready' = is_ready
             /\ db' = db]_vars

\* On a ready instance, a load of a repository whose database directory is
\* empty returned False without preparing a retriever; the instance is
\* still ready
C13_Witness ==
    /\ kres.op = "load"
    /\ kres.arg \in Repos
    /\ db[repo_identifier_of[kres.arg]] = "empty"
    /\ kres.ret = <<"False">>
    /\ kres.prepared = 0
    /\ kres.exc = ""
    /\ is_ready

\* C14: load of a persisted record of a missing or different schema version
\* returns False, leaves the record as it is (no rebuild, no overwrite) and
\* does not mark the instance ready.
C14_StaleRecordNotLoaded ==
    [][\A repo \in Repos, prep \in {"ok", "raise"} :
          (kres'.op = "load" /\ kres'.arg = repo /\ Load(repo, prep) /\ db[repo_identifier_of[repo]] = "stale") =>
             /\ kres'.ret = <<"False">>
             /\ kres'.site # "build"
             /\ db' = db
             /\ is_ready' = is_ready]_vars

\* A load met a record of another schema version: it returned False, the
\* record is still there and the instance is not ready
C14_Witness ==
    /\ kres.op = "load"
    /\ kres.arg \in Repos
    /\ db[repo_identifier_of[kres.arg]] = "stale"
    /\ kres.ret = <<"False">>
    /\ kres.exc = "PrepareError"
    /\ ~is_ready

\* C15: on a ready instance a query whose RAG call fails does not raise: it
\* returns an explanatory string with no documents, and the instance stays
\* ready.
C15_QueryFailureIsAnswered ==
    [][\A q \in Questions, l \in Languages :
          (Query(q, l, "raise") /\ is_ready) =>
             /\ kres'.ret[1] = "apology"
             /\ kres'.docs = <<>>
             /\ is_ready']_vars

\* A query failed in the RAG engine and was answered with the apology
C15_Witness ==
    /\ kres.op = "query"
    /\ kres.ret = <<"apology", "RagError">>
    /\ kres.docs = <<>>
    /\ is_ready

\* C16: on a ready instance each query calls the RAG engine exactly once, with
\* the question and language it was given, whether the call succeeds or not;
\* on success it returns that call's answer text and documents.
C16_OneRagCallPerQuery ==
    [][\A q \in Questions, l \in Languages, shape \in RagShapes :
          (Query(q, l, shape) /\ is_ready) =>
             /\ kres'.asked = << <<q, l>> >>
             /\ ragCalls' = ragCalls + 1
             /\ shape = "rag_answer" =>
                  (kres'.ret = <<"answer", q, l>> /\ kres'.docs = <<"doc", q, l>>)
             /\ shape = "pair" =>
                  (kres'.ret = <<"str", q, l>> /\ kres'.docs = <<"doc", q, l>>)]_vars

\* The second query of a ready instance, in another language than the
\* default, was answered from its one RAG call
C16_Witness ==
    /\ kres.op = "query"
    /\ kres.asked = << <<"q2", "es">> >>
    /\ kres.ret = <<"answer", "q2", "es">>
    /\ kres.docs = <<"doc", "q2", "es">>
    /\ ragCalls = 2

\* C17: add_conversation_turn on an instance that is not ready returns False
\* and leaves the conversation memory unchanged.
C17_AddTurnNotReady ==
    [][\A q \in Questions, outcome \in MemOutcomes :
          (AddTurn(q, "a1", outcome) /\ ~is_ready) =>
             /\ kres'.ret = <<"False">>
             /\ memory' = memory]_vars

\* A turn was offered to an instance that is not ready and refused
C17_Witness ==
    /\ kres.op = "add"
    /\ kres.ret = <<"False">>
    /\ ~is_ready
    /\ memory = <<>>

\* s is an initial segment of t
IsPrefix(s, t) == Len(s) <= Len(t) /\ SubSeq(t, 1, Len(s)) = s

\* C18: the memory is append-only between clears: a successful
\* add_conversation_turn adds exactly the turn (question, answer) at the end,
\* earlier turns keep their content and order, and no facade operation other
\* than clear_conversation removes or reorders turns.
C18_MemoryAppendOnly ==
    [][/\ (kres'.op = "add" /\ kres'.ret = <<"True">>) =>
             memory' = Append(memory, kres'.arg)
       /\ (kres'.op = "add" /\ kres'.ret # <<"True">>) => memory' = memory
       /\ kres'.op \notin {"add", "clear"} => memory' = memory
       /\ kres'.op # "clear" => IsPrefix(memory, memory')]_vars

\* A second, different turn was added after the first
C18_Witness ==
    /\ kres.op = "add"
    /\ kres.ret = <<"True">>
    /\ kres.had = << <<"q1", "a1">> >>
    /\ memory = << <<"q1", "a1">>, <<"q2", "a1">> >>

\* C19: clear_conversation on a ready instance replaces the memory with an
\* empty one, on an instance that is not ready it changes nothing, and in
\* both cases is_ready and repo_url_or_path stay as they were.
C19_ClearConversation ==
    [][Clear =>
         /\ is_ready => memory' = <<>>
         /\ ~is_ready => memory' = memory
         /\ is_ready' = is_ready
         /\ repo_url_or_path' = repo_url_or_path]_vars

\* A ready instance with two turns was cleared
C19_Witness ==
    /\ kres.op = "clear"
    /\ Len(kres.had) = 2
    /\ memory = <<>>
    /\ is_ready
    /\ repo_url_or_path \in Repos

\* C20: on a ready instance, after any history, clear_conversation() followed
\* by a successful add_conversation_turn(q, a) leaves exactly the one turn
\* (q, a) in the memory.
C20_ClearThenAdd ==
    [][\A q \in Questions :
          (AddTurn(q, "a1", "ok") /\ is_ready /\ kres.op = "clear") =>
             memory' = << <<q, "a1">> >>]_vars

\* Two turns were cleared and one turn added right after: it is the only one
C20_Witness ==
    /\ kres.op = "add"
    /\ kres.cleared = 2
    /\ kres.ret = <<"True">>
    /\ memory = << <<"q1", "a1">> >>
    /\ is_ready

\* C22: every URL form https://github.com/{owner}/{repo}[.git][/] resolves to
\* exactly {owner}_{repo}: only a trailing .git and a trailing slash are
\* dropped, the rest of the repository name is kept.
C22_UrlFormsResolve ==
    \A o \in Owners, r \in RepoNames :
       (rz.call.made /\ rz.call.arg \in UrlForms(o, r)) =>
          rz.call.out = o \o <<"_">> \o r

\* The part of a path after its last slash
FinalSegment(path) ==
    LET cut == {i \in 1..Len(path) : path[i] = "/"}
    IN  IF cut = {} THEN path
        ELSE SubSeq(path, 1 + CHOOSE i \in cut : \A k \in cut : k <= i, Len(path))

\* C23: a local filesystem path resolves to its final segment verbatim, with
\* no .git stripping.
C23_LocalPathKeepsName ==
    (rz.call.made /\ rz.call.arg \in LocalPaths) =>
       rz.call.out = FinalSegment(rz.call.arg)

\* C24: resolution is deterministic: the same input yields the same
\* identifier whatever the filesystem holds at the time of the call and
\* whatever ran before.
C24_SameInputSameIdentifier ==
    (rz.call.made /\ rz.prev.made /\ rz.call.arg = rz.prev.arg) =>
       (rz.call.out = rz.prev.out /\ rz.call.path = rz.prev.path)

\* <root>/databases/, the directory that holds every database
DatabasesDir == Root \o <<"/", "databases", "/">>

\* C25: the resolver never returns an empty identifier (the empty string is
\* refused), so no call addresses the root of the database directory.
C25_NeverEmptyIdentifier ==
    rz.call.made => (rz.call.out # <<>> /\ rz.call.path # DatabasesDir)

\* C27: the database path of an identifier is <root>/databases/<identifier>;
\* the same identifier gives the same path and two distinct identifiers the
\* resolver produces never give the same path.
C27_PathStableInjective ==
    rz.call.made =>
       /\ rz.call.path = DatabasesDir \o rz.call.out
       /\ rz.prev.made => (rz.call.out = rz.prev.out <=> rz.call.path = rz.prev.path)

\* Two calls gave distinct identifiers, one of a URL and one of a directory,
\* and each has its own path under <root>/databases
C27_Witness ==
    /\ rz.call.made
    /\ rz.prev.made
    /\ rz.prev.arg \in GitHubUrls
    /\ rz.call.arg \in rz.dirs
    /\ rz.call.out # rz.prev.out
    /\ rz.call.path # rz.prev.path
    /\ rz.call.path = DatabasesDir \o rz.call.out

\* C26: the existence check is true exactly when the database directory of
\* the identifier exists and holds at least one entry; a missing directory
\* and an empty one both count as absent.
C26_ExistsIffNonEmptyDirectory ==
    [][\A repo \in Repos :
          (kres'.op = "is_built" /\ kres'.arg = repo /\ IsBuilt(repo)
             /\ db[repo_identifier_of[repo]] # "notdir") =>
             /\ kres'.ret \in {<<"True">>, <<"False">>}
             /\ kres'.ret = <<"True">> <=>
                  db[repo_identifier_of[repo]] \in {"built", "stale"}
             /\ kres'.ret = <<"False">> <=>
                  db[repo_identifier_of[repo]] \in {"missing", "empty"}]_vars

\* is_built has answered False for a repository whose database directory is
\* there but empty
C26_Witness ==
    /\ kres.op = "is_built"
    /\ kres.arg \in Repos
    /\ db[repo_identifier_of[kres.arg]] = "empty"
    /\ kres.ret = <<"False">>

\* C28: the facade offers query_stream on a ready instance, and the fragments
\* it yields are finitely many and concatenate to the answer text of query.
C28_StreamOffered ==
    [][(kres'.op = "query_stream" /\ is_ready) =>
          kres'.ret # <<"AttributeError">>]_vars

\* C30: a build or load that returns False leaves is_ready and
\* repo_url_or_path as they were, so a ready instance reports the repository
\* of the last build or load that returned True.
C30_FailedCallKeepsRepo ==
    [][(is_ready /\ kres'.op \in {"build", "load"} /\ kres'.ret = <<"False">>) =>
          (is_ready' = is_ready /\ repo_url_or_path' = repo_url_or_path)]_vars

\* C29: in main, when neither --build nor --force-rebuild is given, a
\* knowledge base exists and load returns False, the fallback build runs
\* the build path for the repository and does not delegate to load again.
C29_FallbackRunsBuildPath ==
    [][(mn.pc = "build" /\ mn.fallback /\ mn'.pc # "build") =>
          (kres'.op = "build" /\ kres'.site = "build" /\ kres'.loads = 0)]_vars

\* The memory after one completed call, run on its own
ApplyCall(mem, call) ==
    IF call.op = "add" /\ call.ret = "True" THEN Append(mem, <<call.q, "a1">>)
    ELSE IF call.op = "clear" /\ call.ret = "cleared" THEN <<>>
    ELSE mem

RECURSIVE SequentialResults(_, _, _)
\* The memories that the calls of two threads leave when they run one after
\* another, in any order that keeps each thread's own order
SequentialResults(calls1, calls2, mem) ==
    IF calls1 = <<>> /\ calls2 = <<>> THEN {mem}
    ELSE (IF calls1 = <<>> THEN {}
          ELSE SequentialResults(Tail(calls1), calls2, ApplyCall(mem, Head(calls1))))
         \cup
         (IF calls2 = <<>> THEN {}
          ELSE SequentialResults(calls1, Tail(calls2), ApplyCall(mem, Head(calls2))))

C34_CheckVersionNeverRaises ==
    res.op = "check" =>
       /\ res.out.kind = "return"
       /\ res.out.value = PyBool(load_state_with_version(res.file).kind = "return")

\* C31: in main the question loop is entered only when the knowledge base is
\* ready, a load or build having returned True; when the build fails main
\* returns 1 without entering the loop and without having issued a query.
C31_LoopOnlyWhenReady ==
    /\ mn.pc = "qa" => /\ is_ready
                       /\ kres.op \in {"load", "build"}
                       /\ kres.ret = <<"True">>
    /\ mn.entered => is_ready /\ everOk
    /\ mn.exit = <<1>> => ~mn.entered /\ ragCalls = 0 /\ memory = <<>>

C31_Witness ==
    /\ mn.pc = "exit"
    /\ mn.exit = <<1>>
    /\ kres.op = "build"
    /\ kres.ret = <<"False">>
    /\ ~is_ready

C33_LoopSurvivesExceptions ==
    [][mn.pc \in {"input", "query", "display", "add"} =>
          /\ mn'.last \in LoopErrors \ {"KeyboardInterrupt"} =>
                mn'.pc = "input" /\ memory' = memory
          /\ mn'.pc = "exit" =>
                mn'.last \in {"exit", "KeyboardInterrupt"} /\ mn'.exit = <<0>>]_vars

C33_Witness ==
    /\ mn.pc = "input"
    /\ mn.last = "OSError"
    /\ kres.op = "query"
    /\ ragCalls = 1
    /\ memory = <<>>

====
